---- MODULE Spec2Model ----
(***************************************************************************)
(* Scene composer (src/index.tsx): the undo/redo history manager           *)
(* (historyReducer, useUndoRedo), the handlers of App that edit the        *)
(* Document through it, the dictation (startRecording,                     *)
(* stopRecordingAndTranscribe), the scene generation pipeline              *)
(* (generateScene) and the WAV encoder (addWavHeader).                     *)
(*                                                                         *)
(* A Document is a JavaScript object: it is modelled as a record of its    *)
(* eight fields plus `ref`, the identity of the object.  `a.ref = b.ref`   *)
(* is JavaScript's `a === b`; SameValue(a, b) is field-by-field equality.  *)
(* Volumes are kept in hundredths (0.15 is 15).                            *)
(***************************************************************************)
EXTENDS Integers, Sequences, FiniteSets, TLC

\* ---------------------------------------------------------------- bounds

\* Document objects that edits may allocate (ref 0 is the initial Document).
MaxRefs == 2
\* Edit calls the call log counts before it stops following the sequence.
MaxCalls == 3
\* Status queries of a run the video service may answer "not done".
MaxPolls == 2
\* Generation runs that may be started.
MaxRuns == 2
\* Sample bytes handed to addWavHeader.
MaxSamples == 3

\* ------------------------------------------------------------ data model

NULL == "null"

Fields ==
  {"videoPrompt", "dialogue", "aspectRatio", "uploadedImage", "voiceName",
   "backgroundMusic", "bgMusicName", "bgMusicVolume"}

AspectRatios == {"16:9", "9:16"}

VoiceNames == {"Kore", "Puck"}

\* What the user can type, pick or upload.
Prompts == {"", "a fox"}

Dialogues == {"", "Hello"}

ImageFiles == {"data:image/png;base64,iVBOR"}

MusicFiles == {[data |-> "data:audio/mpeg;base64,SUQz", name |-> "song.mp3"]}

Volumes == {0, 100}

\* The argument of useUndoRedo in App.
InitialDoc ==
  [ref |-> 0,
   videoPrompt |-> "",
   dialogue |-> "",
   aspectRatio |-> "16:9",
   uploadedImage |-> NULL,
   voiceName |-> "Kore",
   backgroundMusic |-> NULL,
   bgMusicName |-> NULL,
   bgMusicVolume |-> 15]

\* Field-by-field equality of two Documents, whatever objects they are.
SameValue(a, b) == \A f \in Fields : a[f] = b[f]

\* JavaScript truthiness of a string-or-null value.
Truthy(x) == x # "" /\ x # NULL

VARIABLES
  hist,      \* the reducer state of useUndoRedo: [past, present, future]
  nextRef,   \* identity the next allocated Document object gets
  hasKey,    \* App state: a credential has been selected
  readers,   \* pending FileReaders of handleMusicUpload, each with the
             \* formState its onloadend closure captured
  loading,   \* App state: a generation run is in progress
  status,    \* App state: the status line
  videoUri,  \* App state: the video artifact, or NULL
  audioUri,  \* App state: the audio artifact, or NULL
  pc,        \* where generateScene is suspended ("idle": not running)
  locals,    \* <<the values generateScene destructured from formState>>,
             \* <<>> while it is not running
  operation, \* the local `operation` of generateScene
  inflight,  \* the remote call generateScene is awaiting
  polls,     \* status queries the running generateScene has issued
  runs,      \* runs started so far (names the blobs a run creates)
  recorder,  \* the dictation control: "off", "asking" (getUserMedia is
             \* pending) or "recording" (isRecording is true)
  transcribing, \* the stopRecordingAndTranscribe calls whose answer is
             \* pending, each with the dialogue of the render it was
             \* clicked in
  callLog,   \* observer: the calls made on the hook since construction
  scenario,  \* observer: where the hook is in an undo scenario
  lastTrigger, \* observer: <<what generateScene read, the artifacts it
             \* found>> right after a click on Generate Scene, <<>> after
             \* any other step
  pollLog,   \* observer: the 5 second waits and the answers to the status
             \* queries of the run, kept for one step after its end
  encoded,   \* the last call of addWavHeader: its arguments and the bytes
             \* it returned
  lastArrival \* observer: <<the transcription answer, the history it
             \* found>> right after the answer arrived, <<>> otherwise

histVars == <<hist, nextRef>>

editVars == <<hist, nextRef, hasKey, readers>>

pipeVars ==
  <<loading, status, videoUri, audioUri, pc, locals, operation, inflight,
    polls, runs>>

\* pipeVars without the status line.
runVars ==
  <<loading, videoUri, audioUri, pc, locals, operation, inflight, polls,
    runs>>

dictVars == <<recorder, transcribing>>

obsVars == <<callLog, scenario, lastTrigger, pollLog, lastArrival>>

vars == <<editVars, pipeVars, dictVars, encoded, obsVars>>

\* --------------------------------------------------------- historyReducer

UNDO_TakesOldest(state) ==
  IF Len(state.past) = 0 THEN state
  ELSE [past |-> Tail(state.past),
        present |-> state.past[1],
        future |-> <<state.present>> \o state.future]

UNDO_PushesBack(state) ==
  IF Len(state.past) = 0 THEN state
  ELSE [past |-> SubSeq(state.past, 1, Len(state.past) - 1),
        present |-> state.past[Len(state.past)],
        future |-> Append(state.future, state.present)]

UNDO_ForgetsFuture(state) ==
  IF Len(state.past) = 0 THEN state
  ELSE [past |-> SubSeq(state.past, 1, Len(state.past) - 1),
        present |-> state.past[Len(state.past)],
        future |-> <<state.present>>]

UNDO(state) ==
  IF Len(state.past) = 0 THEN state
  ELSE [past |-> SubSeq(state.past, 1, Len(state.past) - 1),
        present |-> state.past[Len(state.past)],
        future |-> <<state.present>> \o state.future]

REDO_PushesFront(state) ==
  IF Len(state.future) = 0 THEN state
  ELSE [past |-> <<state.present>> \o state.past,
        present |-> state.future[1],
        future |-> Tail(state.future)]

REDO(state) ==
  IF Len(state.future) = 0 THEN state
  ELSE [past |-> Append(state.past, state.present),
        present |-> state.future[1],
        future |-> Tail(state.future)]

SET_KeepsFuture(state, payload) ==
  IF payload.ref = state.present.ref THEN state
  ELSE [past |-> Append(state.past, state.present),
        present |-> payload,
        future |-> state.future]

SET_NoShortCircuit(state, payload) ==
  [past |-> Append(state.past, state.present),
   present |-> payload,
   future |-> <<>>]

SET(state, payload) ==
  IF payload.ref = state.present.ref THEN state
  ELSE [past |-> Append(state.past, state.present),
        present |-> payload,
        future |-> <<>>]

UPDATE_FIELD_ShortCircuits(state, field, value, ref) ==
  IF state.present[field] = value THEN state
  ELSE [past |-> Append(state.past, state.present),
        present |-> [state.present EXCEPT ![field] = value, !.ref = ref],
        future |-> <<>>]

UPDATE_FIELD_KeepsFuture(state, field, value, ref) ==
  [past |-> Append(state.past, state.present),
   present |-> [state.present EXCEPT ![field] = value, !.ref = ref],
   future |-> state.future]

UPDATE_FIELD_InPlace(state, field, value, ref) ==
  [past |-> Append(state.past, state.present),
   present |-> [state.present EXCEPT ![field] = value],
   future |-> <<>>]

\* `ref` is the identity of the object the spread {...present} allocates.
UPDATE_FIELD(state, field, value, ref) ==
  [past |-> Append(state.past, state.present),
   present |-> [state.present EXCEPT ![field] = value, !.ref = ref],
   future |-> <<>>]

historyReducer(state, action) ==
  CASE action.type = "UNDO" -> UNDO(state)
    [] action.type = "REDO" -> REDO(state)
    [] action.type = "SET" -> SET(state, action.payload)
    [] action.type = "UPDATE_FIELD" ->
         UPDATE_FIELD(state, action.field, action.value, action.ref)
    [] OTHER -> state

\* ------------------------------------------------------------ useUndoRedo

canUndo_AtLeastTwo == Len(hist.past) > 1

canUndo == Len(hist.past) > 0

canRedo == Len(hist.future) > 0

\* The component's view of the Document (state.present).
formState == hist.present

\* The hook's four operations: each dispatches one action to the reducer.
undo ==
  /\ hist' = historyReducer(hist, [type |-> "UNDO"])
  /\ UNCHANGED nextRef

redo ==
  /\ hist' = historyReducer(hist, [type |-> "REDO"])
  /\ UNCHANGED nextRef

\* set(payload); the caller allocated the payload, if it is a new object.
set(payload) ==
  hist' = historyReducer(hist, [type |-> "SET", payload |-> payload])

updateField(field, value) ==
  /\ nextRef <= MaxRefs
  /\ hist' = historyReducer(hist,
       [type |-> "UPDATE_FIELD", field |-> field, value |-> value,
        ref |-> nextRef])
  /\ nextRef' = nextRef + 1

\* ------------------------------------------------------ handlers of App

\* checkKey found a selected key (polled every AI_KEY_POLL_INTERVAL).
CheckKey ==
  /\ ~hasKey
  /\ hasKey' = TRUE
  /\ UNCHANGED <<hist, nextRef, readers, pipeVars, dictVars>>

Undo_ClearsArtifacts ==
  /\ undo
  /\ videoUri' = NULL
  /\ audioUri' = NULL
  /\ UNCHANGED <<hasKey, readers, loading, status, pc, locals, operation,
                 inflight, polls, runs, dictVars>>

\* The undo button (enabled while canUndo) or Ctrl/Cmd+Z, which calls undo()
\* whatever canUndo says.
Undo ==
  /\ undo
  /\ UNCHANGED <<hasKey, readers, pipeVars, dictVars>>

\* The redo button or Ctrl/Cmd+Shift+Z, Ctrl/Cmd+Y.
Redo ==
  /\ redo
  /\ UNCHANGED <<hasKey, readers, pipeVars, dictVars>>

\* A caller hands the hook's current value back to set: set(state).
SetPresent ==
  /\ set(hist.present)
  /\ UNCHANGED <<nextRef, hasKey, readers, pipeVars, dictVars>>

\* onChange of the prompt textarea: fires when the text changes.
ChangeVideoPrompt ==
  /\ hasKey
  /\ \E v \in Prompts \ {formState.videoPrompt} : updateField("videoPrompt", v)
  /\ UNCHANGED <<hasKey, readers, pipeVars, dictVars>>

ChangeDialogue ==
  /\ hasKey
  /\ \E v \in Dialogues \ {formState.dialogue} : updateField("dialogue", v)
  /\ UNCHANGED <<hasKey, readers, pipeVars, dictVars>>

\* onClick of an aspect ratio button: fires for the selected ratio too.
ClickAspectRatio ==
  /\ hasKey
  /\ \E r \in AspectRatios : updateField("aspectRatio", r)
  /\ UNCHANGED <<hasKey, readers, pipeVars, dictVars>>

\* reader.onloadend of handleImageUpload.
ImageLoadEnd ==
  /\ hasKey
  /\ \E img \in ImageFiles : updateField("uploadedImage", img)
  /\ UNCHANGED <<hasKey, readers, pipeVars, dictVars>>

ChangeVoice ==
  /\ hasKey
  /\ \E v \in VoiceNames \ {formState.voiceName} : updateField("voiceName", v)
  /\ UNCHANGED <<hasKey, readers, pipeVars, dictVars>>

ChangeVolume ==
  /\ hasKey
  /\ \E v \in Volumes \ {formState.bgMusicVolume} :
       updateField("bgMusicVolume", v)
  /\ UNCHANGED <<hasKey, readers, pipeVars, dictVars>>

\* handleMusicUpload: the file input is rendered while the Document has no
\* music; the onloadend closure keeps the formState of this render.  A read
\* is started only while an object is left for its payload.
MusicUpload ==
  /\ hasKey
  /\ ~Truthy(formState.backgroundMusic)
  /\ nextRef + Len(readers) <= MaxRefs
  /\ \E file \in MusicFiles :
       readers' = Append(readers, [captured |-> formState, file |-> file])
  /\ UNCHANGED <<hist, nextRef, hasKey, pipeVars, dictVars>>

\* The object literal { ...formState, backgroundMusic, bgMusicName } built
\* by reader.onloadend.
MusicPayload(r, ref) ==
  [r.captured EXCEPT !.backgroundMusic = r.file.data,
                     !.bgMusicName = r.file.name,
                     !.ref = ref]

RemoveAt(s, i) == SubSeq(s, 1, i - 1) \o SubSeq(s, i + 1, Len(s))

\* reader.onloadend of handleMusicUpload, for the i-th pending reader.
MusicLoadEnd(i) ==
  /\ nextRef <= MaxRefs
  /\ set(MusicPayload(readers[i], nextRef))
  /\ nextRef' = nextRef + 1
  /\ readers' = RemoveAt(readers, i)
  /\ UNCHANGED <<hasKey, pipeVars, dictVars>>

RemovePayload_KeepsName(doc, ref) ==
  [doc EXCEPT !.backgroundMusic = NULL, !.ref = ref]

\* The object literal built by removeMusic.
RemovePayload(doc, ref) ==
  [doc EXCEPT !.backgroundMusic = NULL, !.bgMusicName = NULL, !.ref = ref]

\* removeMusic: its button is rendered while the Document has music.
RemoveMusic ==
  /\ hasKey
  /\ Truthy(formState.backgroundMusic)
  /\ nextRef <= MaxRefs
  /\ set(RemovePayload(formState, nextRef))
  /\ nextRef' = nextRef + 1
  /\ UNCHANGED <<hasKey, readers, pipeVars, dictVars>>

\* -------------------------------------------------------------- dictation

\* What the transcription service may answer as response.text.
Transcripts == {"hi", ""}

\* formStateRef.current: the effect of [formState] stores the formState of
\* every render, so the ref holds the present of the history.
formStateRef == hist.present

\* The click on Record (shown while isRecording is false), up to the await
\* of getUserMedia.  One permission request is followed at a time.
startRecording ==
  /\ hasKey
  /\ recorder = "off"
  /\ recorder' = "asking"
  /\ UNCHANGED <<editVars, pipeVars, transcribing>>

\* getUserMedia settles: the recorder is started and setIsRecording(true),
\* or the catch reports the microphone.
MicrophoneSettles ==
  /\ recorder = "asking"
  /\ \/ /\ recorder' = "recording"
        /\ UNCHANGED status
     \/ /\ recorder' = "off"
        /\ status' = "Error accessing microphone."
  /\ UNCHANGED <<editVars, runVars, transcribing>>

\* The click on Stop & Transcribe (shown while isRecording is true, when
\* mediaRecorderRef.current is set).  The 500 ms wait, the read of the
\* recorded blob and the call of the service follow without touching the
\* state of App: they are the pending entry.  An entry is started only
\* while an object is left for the Document it may write.
stopRecordingAndTranscribe ==
  /\ hasKey
  /\ recorder = "recording"
  /\ nextRef + Len(transcribing) <= MaxRefs
  /\ status' = "Transcribing audio..."
  /\ recorder' = "off"
  /\ transcribing' = Append(transcribing, [dialogue |-> formState.dialogue])
  /\ UNCHANGED <<editVars, runVars>>

CurrentDialogue_Captured(t) == t.dialogue

\* const currentDialogue = formStateRef.current.dialogue, read by the
\* continuation of the pending entry t.
CurrentDialogue(t) == formStateRef.dialogue

\* currentDialogue ? currentDialogue + " " + response.text : response.text
NewDialogue(currentDialogue, text) ==
  IF Truthy(currentDialogue) THEN currentDialogue \o " " \o text ELSE text

\* The answer to the i-th pending transcription arrives with response.text
\* = text: a non-empty text is appended to the dialogue.
TranscriptionResolves(i, text) ==
  /\ IF Truthy(text)
     THEN /\ updateField("dialogue",
                         NewDialogue(CurrentDialogue(transcribing[i]), text))
          /\ status' = "Transcription complete."
     ELSE UNCHANGED <<hist, nextRef, status>>
  /\ transcribing' = RemoveAt(transcribing, i)
  /\ UNCHANGED <<hasKey, readers, runVars, recorder>>

TranscriptionRejects_ClearsDialogue(i) ==
  /\ updateField("dialogue", "")
  /\ status' = "Transcription failed."
  /\ transcribing' = RemoveAt(transcribing, i)
  /\ UNCHANGED <<hasKey, readers, runVars, recorder>>

\* The call of the i-th pending transcription fails (the client cannot be
\* built, or generateContent rejects): the catch reports it.
TranscriptionRejects(i) ==
  /\ status' = "Transcription failed."
  /\ transcribing' = RemoveAt(transcribing, i)
  /\ UNCHANGED <<editVars, runVars, recorder>>

\* ---------------------------------------------------------- generateScene

\* String.prototype.split for a one-character separator.
RECURSIVE SplitFrom(_, _, _, _)
SplitFrom(s, sep, start, i) ==
  IF i > Len(s) THEN <<SubSeq(s, start, Len(s))>>
  ELSE IF SubSeq(s, i, i) = sep
  THEN <<SubSeq(s, start, i - 1)>> \o SplitFrom(s, sep, i + 1, i + 1)
  ELSE SplitFrom(s, sep, start, i + 1)

Split(s, sep) == SplitFrom(s, sep, 1, 1)

\* What the remote services may answer.
RemoteErrors == {"Failed to fetch", ""}

SpeechAudio == {"UklGRg==", NULL}

VideoLocators == {"https://veo/video?alt=media", NULL}

NoCall == [kind |-> "none"]

Undefined == [done |-> FALSE, uri |-> NULL, defined |-> FALSE]

\* new Blob + URL.createObjectURL: a handle no earlier call returned.
BlobUrl(what, run) == "blob:" \o what \o "/" \o ToString(run)

\* The request of ai.models.generateContent for the voiceover.
SpeechRequest(l) ==
  [kind |-> "generateContent", text |-> l.dialogue, voiceName |-> l.voiceName]

\* The request of ai.models.generateVideos, with or without the image.
VideoRequest(l) ==
  IF Truthy(l.uploadedImage)
  THEN [kind |-> "generateVideos",
        prompt |-> IF Truthy(l.videoPrompt) THEN l.videoPrompt
                   ELSE "Animate this image",
        imageBytes |-> Split(l.uploadedImage, ",")[2],
        mimeType |-> Split(Split(l.uploadedImage, ";")[1], ":")[2],
        aspectRatio |-> l.aspectRatio]
  ELSE [kind |-> "generateVideos",
        prompt |-> l.videoPrompt,
        aspectRatio |-> l.aspectRatio]

Fail_KeepsStatus(message) ==
  /\ UNCHANGED status
  /\ loading' = FALSE
  /\ pc' = "idle"
  /\ locals' = <<>>
  /\ operation' = Undefined
  /\ inflight' = NoCall
  /\ polls' = 0

\* catch and finally: the error becomes the status and the run ends.
Fail(message) ==
  /\ status' = "Error: " \o (IF message # "" THEN message
                             ELSE "Unknown error occurred")
  /\ loading' = FALSE
  /\ pc' = "idle"
  /\ locals' = <<>>
  /\ operation' = Undefined
  /\ inflight' = NoCall
  /\ polls' = 0

\* Stage 2 up to its first await: the video request is submitted.
SubmitVideo(l) ==
  /\ status' = "Generating video with Veo (this may take a minute)..."
  /\ inflight' = VideoRequest(l)
  /\ pc' = "submit"

Continue_SkipsWait(op, shown) ==
  IF ~op.done
  THEN /\ pc' = "poll"
       /\ inflight' = [kind |-> "getVideosOperation"]
       /\ polls' = polls + 1
       /\ operation' = op
       /\ status' = shown
       /\ UNCHANGED <<loading, locals>>
  ELSE IF Truthy(op.uri)
  THEN /\ pc' = "fetch"
       /\ inflight' = [kind |-> "fetch", url |-> op.uri \o "&key=API_KEY"]
       /\ operation' = op
       /\ status' = shown
       /\ UNCHANGED <<loading, locals, polls>>
  ELSE Fail("No video returned")

Continue_GivesUp(op, shown) ==
  IF ~op.done /\ polls >= MaxPolls
  THEN Fail("Video generation timed out")
  ELSE IF ~op.done
  THEN /\ pc' = "sleep"
       /\ inflight' = NoCall
       /\ operation' = op
       /\ status' = shown
       /\ UNCHANGED <<loading, locals, polls>>
  ELSE IF Truthy(op.uri)
  THEN /\ pc' = "fetch"
       /\ inflight' = [kind |-> "fetch", url |-> op.uri \o "&key=API_KEY"]
       /\ operation' = op
       /\ status' = shown
       /\ UNCHANGED <<loading, locals, polls>>
  ELSE Fail("No video returned")

\* The while loop's test and what follows it, up to the next await, once
\* `operation` has been assigned op; `shown` is the status set so far.
Continue(op, shown) ==
  IF ~op.done
  THEN /\ pc' = "sleep"
       /\ inflight' = NoCall
       /\ operation' = op
       /\ status' = shown
       /\ UNCHANGED <<loading, locals, polls>>
  ELSE IF Truthy(op.uri)
  THEN /\ pc' = "fetch"
       /\ inflight' = [kind |-> "fetch", url |-> op.uri \o "&key=API_KEY"]
       /\ operation' = op
       /\ status' = shown
       /\ UNCHANGED <<loading, locals, polls>>
  ELSE Fail("No video returned")

\* const { videoPrompt, uploadedImage, dialogue, voiceName, aspectRatio }
\*   = formState
Destructured ==
  [f \in {"videoPrompt", "uploadedImage", "dialogue", "voiceName",
          "aspectRatio"} |-> formState[f]]

MissingVisualInput_UnlessDialogue(l) ==
  ~Truthy(l.videoPrompt) /\ ~Truthy(l.uploadedImage) /\ ~Truthy(l.dialogue)

\* The precondition test: !videoPrompt && !uploadedImage.
MissingVisualInput(l) ==
  ~Truthy(l.videoPrompt) /\ ~Truthy(l.uploadedImage)

FormRendered_Always == TRUE

\* if (!hasKey) return (the key screen): the form with the Generate Scene
\* button is rendered only once hasKey is set.
FormRendered == hasKey

GenerateDisabled_Never == FALSE

\* disabled={loading} of the Generate Scene button.
GenerateDisabled == loading

ClearArtifacts_VideoOnly ==
  /\ videoUri' = NULL
  /\ UNCHANGED audioUri

\* setVideoUri(null); setAudioUri(null)
ClearArtifacts ==
  /\ videoUri' = NULL
  /\ audioUri' = NULL

\* The click on Generate Scene, up to the first await.  The button is
\* rendered once hasKey is set and is disabled while loading.  The client
\* is constructed after setLoading(true) and before the try: when
\* new GoogleGenAI throws (the SDK refuses a missing apiKey in a browser),
\* the exception leaves the function with neither catch nor finally run.
generateScene ==
  /\ FormRendered
  /\ ~GenerateDisabled
  /\ LET l == Destructured
     IN IF MissingVisualInput(l)
        THEN /\ status' = "Please provide a video prompt or an image."
             /\ UNCHANGED <<loading, videoUri, audioUri, pc, locals,
                            operation, inflight, polls, runs>>
        ELSE /\ runs < MaxRuns
             /\ runs' = runs + 1
             /\ loading' = TRUE
             /\ ClearArtifacts
             /\ \/ /\ locals' = <<l>>
                   /\ IF Truthy(l.dialogue)
                      THEN /\ status' = "Generating voiceover..."
                           /\ inflight' = SpeechRequest(l)
                           /\ pc' = "tts"
                      ELSE SubmitVideo(l)
                \/ UNCHANGED <<status, pc, locals, inflight>>
             /\ UNCHANGED <<operation, polls>>
  /\ UNCHANGED <<editVars, dictVars>>

SpeechResolves_WithoutPublishing(audioData) ==
  /\ UNCHANGED audioUri
  /\ SubmitVideo(locals[1])
  /\ UNCHANGED <<loading, locals, operation, polls>>

\* The continuation of `await ai.models.generateContent` with the audio
\* data of the response: if (audioData) { ... setAudioUri(generatedAudioUrl) }
\* and then Stage 2 up to its first await.
SpeechResolves(audioData) ==
  /\ audioUri' = IF Truthy(audioData) THEN BlobUrl("audio", runs)
                 ELSE audioUri
  /\ SubmitVideo(locals[1])
  /\ UNCHANGED <<loading, locals, operation, polls>>

\* ai.models.generateContent settles: the audio, if any, is published and
\* the video request is submitted; a rejection (or atob throwing on the
\* data) goes to the catch of the function.
SpeechSettles ==
  /\ pc = "tts"
  /\ \/ \E audioData \in SpeechAudio : SpeechResolves(audioData)
     \/ \E message \in RemoteErrors :
          /\ Fail(message)
          /\ UNCHANGED audioUri
  /\ UNCHANGED <<videoUri, runs>>
  /\ UNCHANGED <<editVars, dictVars>>

\* ai.models.generateVideos settles.
SubmitSettles ==
  /\ pc = "submit"
  /\ \/ \E done \in BOOLEAN, uri \in VideoLocators :
          /\ done \/ uri = NULL
          /\ Continue([done |-> done, uri |-> uri, defined |-> TRUE], status)
     \/ \E message \in RemoteErrors : Fail(message)
  /\ UNCHANGED <<videoUri, audioUri, runs>>
  /\ UNCHANGED <<editVars, dictVars>>

\* The 5 second timer of the poll loop fires: the operation is queried.
PollTimer ==
  /\ pc = "sleep"
  /\ pc' = "poll"
  /\ inflight' = [kind |-> "getVideosOperation"]
  /\ polls' = polls + 1
  /\ UNCHANGED <<loading, status, videoUri, audioUri, locals, operation,
                 runs>>
  /\ UNCHANGED <<editVars, dictVars>>

\* ai.operations.getVideosOperation settles.  The service answers "not
\* done" to at most MaxPolls queries of a run.
PollSettles ==
  /\ pc = "poll"
  /\ \/ \E done \in BOOLEAN, uri \in VideoLocators :
          /\ done \/ (uri = NULL /\ polls <= MaxPolls)
          /\ Continue([done |-> done, uri |-> uri, defined |-> TRUE],
                      "Veo is thinking...")
     \/ \E message \in RemoteErrors : Fail(message)
  /\ UNCHANGED <<videoUri, audioUri, runs>>
  /\ UNCHANGED <<editVars, dictVars>>

\* fetch settles: the body is read next.
FetchSettles ==
  /\ pc = "fetch"
  /\ \/ /\ pc' = "blob"
        /\ inflight' = [kind |-> "blob"]
        /\ UNCHANGED <<loading, status, locals, operation, polls>>
     \/ \E message \in RemoteErrors : Fail(message)
  /\ UNCHANGED <<videoUri, audioUri, runs>>
  /\ UNCHANGED <<editVars, dictVars>>

\* vidResponse.blob() settles: the video is published and the run ends.
BlobSettles ==
  /\ pc = "blob"
  /\ \/ /\ videoUri' = BlobUrl("video", runs)
        /\ status' = "Scene generation complete!"
        /\ loading' = FALSE
        /\ pc' = "idle"
        /\ locals' = <<>>
        /\ operation' = Undefined
        /\ inflight' = NoCall
        /\ polls' = 0
     \/ \E message \in RemoteErrors :
          /\ Fail(message)
          /\ UNCHANGED videoUri
  /\ UNCHANGED <<audioUri, runs>>
  /\ UNCHANGED <<editVars, dictVars>>

\* ----------------------------------------------------------- addWavHeader

\* Bytes of the decoded audio, sample rates and channel counts a caller may
\* pass.  generateScene passes 24000 and 1; 32768 is the first channel
\* count whose block align needs more than 16 bits.
SampleBytes == {0, 128, 255}

SampleRates == {8000, 24000}

ChannelCounts == {1, 2, 32768}

RECURSIVE SeqsUpTo(_, _)
SeqsUpTo(S, n) ==
  IF n = 0 THEN {<<>>}
  ELSE LET shorter == SeqsUpTo(S, n - 1)
       IN shorter \cup {Append(s, b) : s \in shorter, b \in S}

\* string.charCodeAt(i) for the characters of the header.
CharCode(c) ==
  CASE c = "R" -> 82 [] c = "I" -> 73 [] c = "F" -> 70
    [] c = "W" -> 87 [] c = "A" -> 65 [] c = "V" -> 86 [] c = "E" -> 69
    [] c = "f" -> 102 [] c = "m" -> 109 [] c = "t" -> 116 [] c = " " -> 32
    [] c = "d" -> 100 [] c = "a" -> 97

\* The buffer with `bytes` stored from the 0-based offset on.
Store(buffer, offset, bytes) ==
  [i \in DOMAIN buffer |->
     IF i > offset /\ i <= offset + Len(bytes) THEN bytes[i - offset]
     ELSE buffer[i]]

\* writeString(view, offset, string)
writeString(buffer, offset, string) ==
  Store(buffer, offset,
        [i \in 1..Len(string) |-> CharCode(SubSeq(string, i, i))])

\* view.setUint16(offset, value, true): the value modulo 2^16, low byte
\* first.
setUint16(buffer, offset, value) ==
  Store(buffer, offset, <<value % 256, (value \div 256) % 256>>)

setUint32_BigEndian(buffer, offset, value) ==
  Store(buffer, offset,
        <<(value \div 16777216) % 256, (value \div 65536) % 256,
          (value \div 256) % 256, value % 256>>)

\* view.setUint32(offset, value, true): the value modulo 2^32, low byte
\* first.
setUint32(buffer, offset, value) ==
  Store(buffer, offset,
        <<value % 256, (value \div 256) % 256, (value \div 65536) % 256,
          (value \div 16777216) % 256>>)

addWavHeader(samples, sampleRate, numChannels) ==
  LET b0 == [i \in 1..(44 + Len(samples)) |-> 0]
      b1 == writeString(b0, 0, "RIFF")
      b2 == setUint32(b1, 4, 36 + Len(samples))
      b3 == writeString(b2, 8, "WAVE")
      b4 == writeString(b3, 12, "fmt ")
      b5 == setUint32(b4, 16, 16)
      b6 == setUint16(b5, 20, 1)
      b7 == setUint16(b6, 22, numChannels)
      b8 == setUint32(b7, 24, sampleRate)
      b9 == setUint32(b8, 28, sampleRate * numChannels * 2)
      b10 == setUint16(b9, 32, numChannels * 2)
      b11 == setUint16(b10, 34, 16)
      b12 == writeString(b11, 36, "data")
      b13 == setUint32(b12, 40, Len(samples))
  IN Store(b13, 44, samples)

NotCalled ==
  [called |-> FALSE, samples |-> <<>>, sampleRate |-> 0, numChannels |-> 0,
   out |-> <<>>]

\* A call of addWavHeader.
Encode(samples, sampleRate, numChannels) ==
  /\ encoded' = [called |-> TRUE, samples |-> samples,
                 sampleRate |-> sampleRate, numChannels |-> numChannels,
                 out |-> addWavHeader(samples, sampleRate, numChannels)]
  /\ UNCHANGED <<editVars, pipeVars, dictVars, obsVars>>

\* ---------------------------------------------------------- the observers

Mixed == [phase |-> "mixed", calls |-> 0, pushes |-> 0, undos |-> 0]

\* The call log follows the sequences "N replace/updateField calls, then
\* undo calls": phase "edits" counts the calls (`pushes`: those that changed
\* the history), phase "undos" counts the undo calls that follow them, and
\* any other sequence is "mixed".
Log(type, before, after) ==
  CASE type \in {"SET", "SET(present)", "UPDATE_FIELD"}
         /\ callLog.phase = "edits" /\ callLog.calls < MaxCalls ->
         [callLog EXCEPT !.calls = @ + 1,
                         !.pushes = @ + (IF after # before THEN 1 ELSE 0)]
    [] type = "UNDO" /\ callLog.phase = "edits" /\ callLog.calls >= 1 ->
         [callLog EXCEPT !.phase = "undos", !.undos = 1]
    [] type = "UNDO" /\ callLog.phase = "undos"
         /\ callLog.undos < callLog.calls ->
         [callLog EXCEPT !.undos = @ + 1]
    [] OTHER -> Mixed

\* The undo scenarios, named by the stage reached:
\*   1  an undo issued while past was non-empty (`undone`: what it undid)
\*   2  an updateField that directly follows stage 1
\*   3  a redo that directly follows stage 1
\*   4  a redo that directly follows stage 2
\*   5  a set(present) that directly follows stage 1
\*   6  an undo issued while past was empty
\*   7  a redo issued while future was empty, outside stage 2
\* `noop` tells whether the last operation left the history unchanged.
NoScenario == [stage |-> 0, undone |-> <<>>, noop |-> FALSE]

Follow(type, before, after) ==
  CASE type = "UNDO" /\ before.past # <<>> ->
         [stage |-> 1, undone |-> <<before.present>>, noop |-> after = before]
    [] type = "UNDO" /\ before.past = <<>> ->
         [stage |-> 6, undone |-> <<>>, noop |-> after = before]
    [] type = "UPDATE_FIELD" /\ scenario.stage = 1 ->
         [stage |-> 2, undone |-> <<>>, noop |-> after = before]
    [] type = "REDO" /\ scenario.stage = 1 ->
         [stage |-> 3, undone |-> scenario.undone, noop |-> after = before]
    [] type = "REDO" /\ scenario.stage = 2 ->
         [stage |-> 4, undone |-> <<>>, noop |-> after = before]
    [] type = "SET(present)" /\ scenario.stage = 1 ->
         [stage |-> 5, undone |-> <<>>, noop |-> after = before]
    [] type = "REDO" /\ scenario.stage \notin {1, 2}
         /\ before.future = <<>> ->
         [stage |-> 7, undone |-> <<>>, noop |-> after = before]
    [] OTHER -> NoScenario

\* The hook performed an operation of the given type in this step.
Observe(type) ==
  /\ callLog' = Log(type, hist, hist')
  /\ scenario' = Follow(type, hist, hist')
  /\ UNCHANGED <<lastTrigger, pollLog, lastArrival>>
  /\ UNCHANGED encoded

NoPolls == [waits |-> 0, answers |-> <<>>]

\* A step of the application other than a click on Generate Scene, a
\* timer of the poll loop or an answer to a status query.  The poll log of
\* a run is dropped by the first step after the run's end.
Quiet ==
  /\ UNCHANGED <<callLog, scenario, lastArrival>>
  /\ lastTrigger' = <<>>
  /\ pollLog' = IF pc = "idle" THEN NoPolls ELSE pollLog
  /\ UNCHANGED encoded

\* A click on Generate Scene.
Triggered ==
  /\ UNCHANGED <<callLog, scenario, lastArrival>>
  /\ lastTrigger' = <<Destructured, [video |-> videoUri, audio |-> audioUri]>>
  /\ pollLog' = NoPolls
  /\ UNCHANGED encoded

\* The 5 second wait of the poll loop is over.
Waited ==
  /\ UNCHANGED <<callLog, scenario, lastArrival>>
  /\ lastTrigger' = <<>>
  /\ pollLog' = [pollLog EXCEPT !.waits = @ + 1]
  /\ UNCHANGED encoded

\* A status query was answered: `operation` tells what it said.
Answered ==
  /\ UNCHANGED <<callLog, scenario, lastArrival>>
  /\ lastTrigger' = <<>>
  /\ pollLog' = [pollLog EXCEPT !.answers =
                   Append(@, IF ~operation'.defined THEN "failed"
                             ELSE IF operation'.done THEN "done"
                             ELSE "not-done")]
  /\ UNCHANGED encoded

\* A step of the dictation other than the arrival of an answer.
Silent ==
  /\ UNCHANGED <<callLog, scenario, lastTrigger, pollLog>>
  /\ lastArrival' = <<>>
  /\ UNCHANGED encoded

\* The answer to a transcription arrived: `answer` is its text, or
\* "rejected".
Arrived(i, answer) ==
  /\ UNCHANGED <<callLog, scenario, lastTrigger, pollLog>>
  /\ lastArrival' = <<[answer |-> answer,
                       captured |-> transcribing[i].dialogue,
                       before |-> hist]>>
  /\ UNCHANGED encoded

\* -------------------------------------------------------- specification

Init ==
  /\ hist = [past |-> <<>>, present |-> InitialDoc, future |-> <<>>]
  /\ nextRef = 1
  /\ hasKey = FALSE
  /\ readers = <<>>
  /\ loading = FALSE
  /\ status = ""
  /\ videoUri = NULL
  /\ audioUri = NULL
  /\ pc = "idle"
  /\ locals = <<>>
  /\ operation = Undefined
  /\ inflight = NoCall
  /\ polls = 0
  /\ runs = 0
  /\ callLog = [phase |-> "edits", calls |-> 0, pushes |-> 0, undos |-> 0]
  /\ scenario = NoScenario
  /\ lastTrigger = <<>>
  /\ recorder = "off"
  /\ transcribing = <<>>
  /\ pollLog = NoPolls
  /\ lastArrival = <<>>
  /\ encoded = NotCalled

\* The generation pipeline under the handlers of the form.  The music is
\* read by playback only: its upload and removal are followed in
\* SpecHistory.
Next ==
  \/ CheckKey /\ Quiet
  \/ Undo /\ Quiet
  \/ Redo /\ Quiet
  \/ SetPresent /\ Quiet
  \/ ChangeVideoPrompt /\ Quiet
  \/ ChangeDialogue /\ Quiet
  \/ ClickAspectRatio /\ Quiet
  \/ ImageLoadEnd /\ Quiet
  \/ ChangeVoice /\ Quiet
  \/ ChangeVolume /\ Quiet
  \/ generateScene /\ Triggered
  \/ SpeechSettles /\ Quiet
  \/ SubmitSettles /\ Quiet
  \/ PollTimer /\ Waited
  \/ PollSettles /\ Answered
  \/ FetchSettles /\ Quiet
  \/ BlobSettles /\ Quiet

Spec == Init /\ [][Next]_vars

\* The history manager under its callers, with the observers following the
\* calls made on the hook.
NextHistory ==
  \/ CheckKey /\ UNCHANGED <<obsVars, encoded>>
  \/ Undo /\ Observe("UNDO")
  \/ Redo /\ Observe("REDO")
  \/ SetPresent /\ Observe("SET(present)")
  \/ ChangeVideoPrompt /\ Observe("UPDATE_FIELD")
  \/ ChangeDialogue /\ Observe("UPDATE_FIELD")
  \/ ClickAspectRatio /\ Observe("UPDATE_FIELD")
  \/ ImageLoadEnd /\ Observe("UPDATE_FIELD")
  \/ ChangeVoice /\ Observe("UPDATE_FIELD")
  \/ ChangeVolume /\ Observe("UPDATE_FIELD")
  \/ MusicUpload /\ UNCHANGED <<obsVars, encoded>>
  \/ \E i \in DOMAIN readers : MusicLoadEnd(i) /\ Observe("SET")
  \/ RemoveMusic /\ Observe("SET")

SpecHistory == Init /\ [][NextHistory]_vars

\* The dictation under the handlers of the form; the upload and removal
\* of the music are followed in SpecHistory.
NextDictation ==
  \/ CheckKey /\ Silent
  \/ Undo /\ Silent
  \/ Redo /\ Silent
  \/ ChangeVideoPrompt /\ Silent
  \/ ChangeDialogue /\ Silent
  \/ ClickAspectRatio /\ Silent
  \/ ImageLoadEnd /\ Silent
  \/ ChangeVoice /\ Silent
  \/ ChangeVolume /\ Silent
  \/ startRecording /\ Silent
  \/ MicrophoneSettles /\ Silent
  \/ stopRecordingAndTranscribe /\ Silent
  \/ \E i \in DOMAIN transcribing, text \in Transcripts :
       TranscriptionResolves(i, text) /\ Arrived(i, text)
  \/ \E i \in DOMAIN transcribing :
       TranscriptionRejects(i) /\ Arrived(i, "rejected")

SpecDictation == Init /\ [][NextDictation]_vars

\* addWavHeader under its callers.
NextEncoder ==
  \E samples \in SeqsUpTo(SampleBytes, MaxSamples),
     sampleRate \in SampleRates, numChannels \in ChannelCounts :
    Encode(samples, sampleRate, numChannels)

SpecEncoder == Init /\ [][NextEncoder]_vars

\* ================================================================ claims
\* C1 to C9, C22, C26 and C27 are checked under SpecHistory, C18 and C19
\* under SpecDictation, C23 under SpecEncoder, the others under Spec.

Last(s) == s[Len(s)]

Front(s) == SubSeq(s, 1, Len(s) - 1)

\* The values a caller of updateField passes for a field.
ValuesOf(f) ==
  CASE f = "videoPrompt" -> Prompts
    [] f = "dialogue" -> Dialogues
    [] f = "aspectRatio" -> AspectRatios
    [] f = "uploadedImage" -> ImageFiles
    [] f = "voiceName" -> VoiceNames
    [] f = "bgMusicVolume" -> Volumes
    [] OTHER -> {}

\* The history after an edit that installs `new`.
Pushed(new) ==
  /\ hist'.past = Append(hist.past, hist.present)
  /\ hist'.present = new
  /\ hist'.future = <<>>

\* After N undo calls that follow N replace/updateField calls made on the
\* initial history, present is the initial Document and canUndo is false.
UndoneAll ==
  callLog.phase = "undos" /\ callLog.undos = callLog.calls
    => hist.present = InitialDoc /\ ~canUndo

\* C1, as stated: after any N >= 1 replace/updateField calls made on the
\* initial history canUndo is true, and N undo calls then bring present back
\* to the initial Document with canUndo false.
C1_AsStated ==
  /\ callLog.phase = "edits" /\ callLog.calls >= 1 => canUndo
  /\ UndoneAll

\* C1, amended: after N >= 1 replace/updateField calls made on the initial
\* history canUndo is true unless every one of them was a replace with the
\* current present (a no-op); in every case N undo calls then bring present
\* back to the initial Document with canUndo false.
C1_UndoAll ==
  /\ callLog.phase = "edits" /\ callLog.pushes >= 1 => canUndo
  /\ callLog.phase = "edits" /\ callLog.pushes = 0 => ~canUndo
  /\ UndoneAll

\* Two edits, one no-op replace among three calls, and three undo calls.
C1_Witness ==
  /\ callLog.phase = "undos"
  /\ callLog.calls = 3
  /\ callLog.pushes = 2
  /\ callLog.undos = 3

\* C2: undo leaves the history unchanged when past is empty; otherwise the
\* new present is the last entry of past, past loses exactly that entry, and
\* the previous present becomes the first entry of future, the rest of
\* future following it unchanged.
C2_Undo ==
  [][Undo =>
       IF hist.past = <<>> THEN hist' = hist
       ELSE /\ hist'.present = Last(hist.past)
            /\ hist'.past = Front(hist.past)
            /\ Head(hist'.future) = hist.present
            /\ Tail(hist'.future) = hist.future]_vars

\* An undo has acted on a history that already had a redo entry.
C2_Witness == scenario.stage = 1 /\ Len(hist.future) >= 2

\* C3: redo leaves the history unchanged when future is empty; otherwise the
\* new present is the first entry of future, future loses exactly that entry,
\* and the previous present is appended to the end of past, the rest of past
\* unchanged.
C3_Redo ==
  [][Redo =>
       IF hist.future = <<>> THEN hist' = hist
       ELSE /\ hist'.present = Head(hist.future)
            /\ hist'.future = Tail(hist.future)
            /\ Last(hist'.past) = hist.present
            /\ Front(hist'.past) = hist.past]_vars

\* A redo has acted on a history whose past was not empty.
C3_Witness == scenario.stage = 3 /\ Len(hist.past) >= 2

\* C4: every new edit (a replace with a value different from present, or any
\* updateField) appends the old present to past, installs the new value as
\* present and leaves future empty.
C4_EditClearsFuture ==
  [][/\ \A f \in Fields : \A v \in ValuesOf(f) :
          updateField(f, v) =>
            Pushed([hist.present EXCEPT ![f] = v, !.ref = nextRef])
     /\ \A i \in DOMAIN readers :
          MusicLoadEnd(i)
            /\ ~SameValue(MusicPayload(readers[i], nextRef), hist.present)
            => Pushed(MusicPayload(readers[i], nextRef))
     /\ RemoveMusic => Pushed(RemovePayload(hist.present, nextRef))]_vars

\* An edit made directly after an undo has discarded the redo entry.
C4_Witness ==
  /\ scenario.stage = 2
  /\ ~scenario.noop
  /\ hist.future = <<>>
  /\ hist.past # <<>>

\* C5, as stated: a replace with the same value as the current present
\* leaves past, present and future unchanged.
C5_AsStated ==
  [][/\ SetPresent => hist' = hist
     /\ \A i \in DOMAIN readers :
          MusicLoadEnd(i)
            /\ SameValue(MusicPayload(readers[i], nextRef), hist.present)
            => hist' = hist]_vars

\* C5, amended: a replace with the very object that is the current present
\* (payload === present) leaves past, present and future unchanged; a
\* replace with another object whose fields all equal those of present is
\* recorded as an edit.
C5_SameObject ==
  [][/\ SetPresent => hist' = hist
     /\ \A i \in DOMAIN readers :
          MusicLoadEnd(i)
            /\ SameValue(MusicPayload(readers[i], nextRef), hist.present)
            => Pushed(MusicPayload(readers[i], nextRef))]_vars

\* set(present) was called with a redo entry pending, and kept it.
C5_Witness ==
  /\ scenario.stage = 5
  /\ scenario.noop
  /\ hist.future # <<>>

\* C6: updateField(f, v) never short-circuits: also when v is the current
\* value of f it adds exactly one entry to past (the old present) and clears
\* future, and the new present has v in f and equals the old present in
\* every other field.
C6_NoShortCircuit ==
  [][\A f \in Fields : \A v \in ValuesOf(f) :
       updateField(f, v) =>
         /\ Len(hist'.past) = Len(hist.past) + 1
         /\ Last(hist'.past) = hist.present
         /\ hist'.future = <<>>
         /\ hist'.present[f] = v
         /\ \A g \in Fields \ {f} : hist'.present[g] = hist.present[g]]_vars

\* Two consecutive field edits wrote the value the field already had: two
\* entries of past equal present field by field.
C6_Witness ==
  /\ Len(hist.past) >= 2
  /\ SameValue(hist.present, Last(hist.past))
  /\ SameValue(hist.present, hist.past[Len(hist.past) - 1])
  /\ callLog.phase = "edits"
  /\ callLog.pushes = 2

\* C7: a redo directly after an undo that changed the history restores the
\* undone value as present; an updateField directly after such an undo leaves
\* no redo entry, and a redo that follows it is a no-op.
C7_RedoAfterUndo ==
  /\ scenario.stage = 3 => <<hist.present>> = scenario.undone
  /\ scenario.stage = 2 => hist.future = <<>>
  /\ scenario.stage = 4 => scenario.noop /\ hist.future = <<>>

\* undo, updateField, redo: the redo did nothing.
C7_Witness == scenario.stage = 4 /\ scenario.noop

\* C8, as stated: neither past nor future contains the present value.
C8_AsStated ==
  /\ \A i \in DOMAIN hist.past : ~SameValue(hist.past[i], hist.present)
  /\ \A i \in DOMAIN hist.future : ~SameValue(hist.future[i], hist.present)

\* C8, amended: neither past nor future contains the present object (no
\* entry is === present), for any sequence of undo, redo, updateField and
\* replace calls in which replace is given the current present or a newly
\* built object; an entry may equal present field by field.
C8_PresentObjectNotInHistory ==
  /\ \A i \in DOMAIN hist.past : hist.past[i].ref # hist.present.ref
  /\ \A i \in DOMAIN hist.future : hist.future[i].ref # hist.present.ref

\* An entry of past and an entry of future equal present field by field.
C8_Witness ==
  /\ \E i \in DOMAIN hist.past : SameValue(hist.past[i], hist.present)
  /\ \E i \in DOMAIN hist.future : SameValue(hist.future[i], hist.present)

\* C9: canUndo is true exactly when past is non-empty and canRedo exactly
\* when future is non-empty, and an undo or redo issued while its flag is
\* false changes nothing.
C9_Flags ==
  /\ [](canUndo <=> hist.past # <<>>)
  /\ [](canRedo <=> hist.future # <<>>)
  /\ [][/\ Undo /\ ~canUndo => hist' = hist
        /\ Redo /\ ~canRedo => hist' = hist]_vars

\* An undo was issued while canUndo was false.
C9_Witness == scenario.stage = 6 /\ scenario.noop /\ ~canUndo /\ canRedo

\* A step that issues a remote call.
IssuesCall == inflight' # inflight /\ inflight' # NoCall

\* C10: a trigger with an empty video prompt and no reference image, with or
\* without dialogue, sets the precondition status in the same step and
\* issues no remote call: remote calls are issued only by a trigger that has
\* a prompt or an image and by the run such a trigger started.
C10_Precondition ==
  /\ [][generateScene /\ formState.videoPrompt = ""
          /\ formState.uploadedImage = NULL
        => /\ status' = "Please provide a video prompt or an image."
           /\ inflight' = NoCall
           /\ pc' = "idle"
           /\ UNCHANGED <<loading, videoUri, audioUri, polls, runs>>]_vars
  /\ [][IssuesCall =>
          \/ pc = "idle" /\ generateScene
               /\ (formState.videoPrompt # "" \/ formState.uploadedImage # NULL)
          \/ pc # "idle" /\ locals # <<>>]_vars
  /\ [](pc # "idle" =>
          /\ locals # <<>>
          /\ (locals[1].videoPrompt # "" \/ locals[1].uploadedImage # NULL))
  /\ [](pc = "idle" => inflight = NoCall)

\* The trigger read a Document with dialogue but neither prompt nor image.
C10_Witness ==
  /\ lastTrigger # <<>>
  /\ lastTrigger[1].dialogue # ""
  /\ lastTrigger[1].videoPrompt = ""
  /\ lastTrigger[1].uploadedImage = NULL
  /\ status = "Please provide a video prompt or an image."
  /\ pc = "idle"

\* The run is in Stage 2: the video request was submitted and the run has
\* not ended.
InStageB == pc \in {"submit", "sleep", "poll", "fetch", "blob"}

\* C11: whatever way the speech call of a run settles (audio, no audio, a
\* rejection, undecodable data), the same step submits the video request of
\* the run.
C11_AsStated ==
  [][pc = "tts" /\ pc' # "tts"
       => pc' = "submit" /\ inflight'.kind = "generateVideos"]_vars

\* The status line is what the catch of generateScene writes.
IsError(s) == Len(s) >= 7 /\ SubSeq(s, 1, 7) = "Error: "

\* C12: a step that ends the run from Stage 2 without the completion message
\* (the submission, a status query, the fetch or the body read failed, or
\* the operation completed with no locator) leaves an error string in the
\* status, no video, loading reset, and the audio reference as it was.
C12_StageBFailure ==
  [][InStageB /\ pc' = "idle" /\ status' # "Scene generation complete!"
       => /\ IsError(status')
          /\ videoUri' = NULL
          /\ audioUri' = audioUri
          /\ ~loading']_vars

\* The operation of a run that had published its audio completed with no
\* locator.
C12_Witness ==
  /\ pc = "idle"
  /\ status = "Error: No video returned"
  /\ runs >= 1
  /\ audioUri = BlobUrl("audio", runs)
  /\ videoUri = NULL

\* C13: while the speech call of a run is pending its video request is not
\* submitted; a run with dialogue submits the request in the step that
\* continues from the settled speech call, and when the call returned audio
\* that step has published the audio of the run, with the video still
\* absent; no later step of the run publishes audio.
C13_AudioBeforeVideo ==
  /\ [](pc = "tts" =>
          /\ inflight.kind = "generateContent"
          /\ ~operation.defined
          /\ Truthy(locals[1].dialogue))
  /\ [][inflight'.kind = "generateVideos" /\ inflight.kind # "generateVideos"
          /\ Truthy(locals'[1].dialogue)
        => pc = "tts"]_vars
  /\ [][\A audioData \in SpeechAudio :
          pc = "tts" /\ SpeechResolves(audioData) /\ Truthy(audioData)
          => /\ audioUri' = BlobUrl("audio", runs)
             /\ inflight'.kind = "generateVideos"
             /\ videoUri' = NULL]_vars
  /\ [][audioUri' # audioUri /\ audioUri' # NULL => pc = "tts"]_vars

\* The audio of the run is published while its video operation is pending.
C13_Witness ==
  /\ pc = "sleep"
  /\ audioUri = BlobUrl("audio", runs)
  /\ videoUri = NULL
  /\ loading

\* C14: the step in which a click on Generate Scene starts a run (the one that
\* issues its first remote call) leaves both artifact references absent, and
\* while loading is set each reference is absent or is the blob created by
\* the run in progress.
C14_NoStaleArtifacts ==
  /\ [][generateScene /\ loading'
        => videoUri' = NULL /\ audioUri' = NULL]_vars
  /\ [](loading =>
          /\ videoUri \in {NULL, BlobUrl("video", runs)}
          /\ audioUri \in {NULL, BlobUrl("audio", runs)})

\* The second run has just started from a state that showed the video and
\* the audio of the first run.
C14_Witness ==
  /\ lastTrigger # <<>>
  /\ lastTrigger[2].video = BlobUrl("video", 1)
  /\ lastTrigger[2].audio = BlobUrl("audio", 1)
  /\ runs = 2
  /\ loading
  /\ inflight # NoCall
  /\ videoUri = NULL
  /\ audioUri = NULL

\* C15: loading is set in every state in which a run is suspended at one of
\* its awaits; while loading is set no step is a click on Generate Scene and
\* no run starts, whatever handlers run in between; a run starts only from
\* a state with no run in progress.
C15_OneRun ==
  /\ [](pc # "idle" => loading)
  /\ [][loading => runs' = runs /\ lastTrigger' = <<>>]_vars
  /\ [][runs' # runs => pc = "idle" /\ ~loading /\ runs' = runs + 1]_vars

\* The user edited the prompt while the second run waits in its poll loop.
C15_Witness ==
  /\ loading
  /\ pc = "sleep"
  /\ runs = 2
  /\ locals[1].videoPrompt # formState.videoPrompt

\* The status queries of the run were answered not-done, not-done, done
\* with a locator.
TwoThenDone == pollLog.answers = <<"not-done", "not-done", "done">>

\* C16 as stated: after the answers not-done, not-done, done exactly two
\* waits have passed when the fetch is issued, and the run ends with the
\* completion message.
C16_AsStated ==
  /\ pc \in {"fetch", "blob"} /\ TwoThenDone => pollLog.waits = 2
  /\ pc = "idle" /\ TwoThenDone
       => pollLog.waits = 2 /\ status = "Scene generation complete!"

\* C16: one 5 second wait precedes each status query, so when the fetch is
\* issued the waits that have passed are as many as the answers received:
\* three after the answers not-done, not-done, done.  Such a run ends with
\* the completion message and the video when the fetch and the body read
\* succeed, and with an error string and no video otherwise.
C16_WaitPerPoll ==
  /\ pc \in {"sleep", "fetch", "blob"}
       => pollLog.waits = Len(pollLog.answers)
  /\ pc = "poll" => pollLog.waits = Len(pollLog.answers) + 1
  /\ pc \in {"fetch", "blob"} /\ TwoThenDone => pollLog.waits = 3
  /\ pc = "idle" /\ TwoThenDone
       => /\ pollLog.waits = 3
          /\ \/ status = "Scene generation complete!"
                  /\ videoUri = BlobUrl("video", runs)
             \/ IsError(status) /\ videoUri = NULL

\* A run whose status queries said not-done, not-done, done has just ended
\* with its video.
C16_Witness ==
  /\ pc = "idle"
  /\ TwoThenDone
  /\ pollLog.waits = 3
  /\ status = "Scene generation complete!"
  /\ videoUri = BlobUrl("video", runs)

\* C17: whenever no continuation of a run is pending loading is reset, so
\* that Generate Scene is enabled again, and a step that resets loading
\* without the completion message leaves an error string in the status.
C17_AsStated ==
  /\ [](pc = "idle" => ~loading)
  /\ [][loading /\ ~loading' /\ status' # "Scene generation complete!"
        => IsError(status')]_vars

\* C18: right after a transcription answer with a non-empty text t arrived,
\* the dialogue of the present is d + " " + t, or t when d is empty, where d
\* is the dialogue of the present the answer found; the other fields are
\* those of that present, which is now the newest entry of past.
C18_AppendsToPresent ==
  lastArrival # <<>> /\ lastArrival[1].answer \notin {"", "rejected"} =>
    LET t == lastArrival[1].answer
        found == lastArrival[1].before
        d == found.present.dialogue
    IN /\ hist.present.dialogue = IF d = "" THEN t ELSE d \o " " \o t
       /\ \A f \in Fields \ {"dialogue"} :
            hist.present[f] = found.present[f]
       /\ hist.past = Append(found.past, found.present)
       /\ status = "Transcription complete."

\* The dialogue was empty when Stop & Transcribe was clicked, the user
\* typed "Hello" while the answer was pending, and the answer "hi" was
\* appended to it.
C18_Witness ==
  /\ lastArrival # <<>>
  /\ lastArrival[1].answer = "hi"
  /\ lastArrival[1].captured = ""
  /\ lastArrival[1].before.present.dialogue = "Hello"
  /\ hist.present.dialogue = "Hello hi"

\* C19: right after a transcription call failed the status reports the
\* failure and the history (past, present with its dialogue, future) is the
\* one the failure found.
C19_FailureLeavesHistory ==
  lastArrival # <<>> /\ lastArrival[1].answer = "rejected" =>
    /\ status = "Transcription failed."
    /\ hist = lastArrival[1].before
    /\ hist.present.dialogue = lastArrival[1].before.present.dialogue

\* A transcription failed on a history with a dialogue, an undoable and a
\* redoable entry.
C19_Witness ==
  /\ lastArrival # <<>>
  /\ lastArrival[1].answer = "rejected"
  /\ status = "Transcription failed."
  /\ hist.present.dialogue = "Hello"
  /\ hist.past # <<>>
  /\ hist.future # <<>>

\* C20: every speech request and every video request the pipeline issues
\* carries the values of the present Document of the step that issues it.
C20_AsStated ==
  [][IssuesCall =>
       /\ inflight'.kind = "generateContent"
            => inflight' = SpeechRequest(Destructured)
       /\ inflight'.kind = "generateVideos"
            => inflight' = VideoRequest(Destructured)]_vars

\* C21: in every state in which hasKey is false no run has started, none is
\* in progress and no remote call is in flight, and no step taken from such
\* a state is a click on Generate Scene, starts a run or issues a remote
\* call.
C21_KeyGate ==
  /\ [](~hasKey =>
          /\ runs = 0
          /\ pc = "idle"
          /\ ~loading
          /\ inflight = NoCall
          /\ lastTrigger = <<>>)
  /\ [][~hasKey => runs' = runs /\ ~IssuesCall /\ lastTrigger' = <<>>]_vars

\* No key has been found yet: the pipeline has not been entered.
C21_Witness ==
  /\ ~hasKey
  /\ runs = 0
  /\ inflight = NoCall
  /\ status = ""

\* The Documents of the history.
DocumentsOf(h) ==
  {h.past[i] : i \in DOMAIN h.past} \cup {h.present}
    \cup {h.future[i] : i \in DOMAIN h.future}

\* Volume within [0, 1] (in hundredths), one of the two aspect ratios, and
\* the music and its name both absent or both present.
WellFormed(doc) ==
  /\ doc.bgMusicVolume >= 0 /\ doc.bgMusicVolume <= 100
  /\ doc.aspectRatio \in {"16:9", "9:16"}
  /\ (doc.backgroundMusic = NULL) = (doc.bgMusicName = NULL)

BytesAt(out, offset, n) == SubSeq(out, offset + 1, offset + n)

U16At(out, offset) == out[offset + 1] + 256 * out[offset + 2]

U32At(out, offset) ==
  out[offset + 1] + 256 * out[offset + 2] + 65536 * out[offset + 3]
    + 16777216 * out[offset + 4]

\* What C23 says of every field but the two 16-bit fields computed from the
\* channel count.
HeaderOf(out, N, R, C) ==
  /\ Len(out) = N + 44
  /\ BytesAt(out, 0, 4) = <<82, 73, 70, 70>>
  /\ U32At(out, 4) = N + 36
  /\ BytesAt(out, 8, 4) = <<87, 65, 86, 69>>
  /\ BytesAt(out, 12, 4) = <<102, 109, 116, 32>>
  /\ U32At(out, 16) = 16
  /\ U16At(out, 20) = 1
  /\ U32At(out, 24) = R
  /\ U32At(out, 28) = R * C * 2
  /\ U16At(out, 34) = 16
  /\ BytesAt(out, 36, 4) = <<100, 97, 116, 97>>
  /\ U32At(out, 40) = N

\* C23 as stated: for every input the header holds C at 22 and C*2 at 32
\* besides the other fields, and the samples follow from offset 44.
C23_AsStated ==
  encoded.called =>
    LET out == encoded.out
        N == Len(encoded.samples)
    IN /\ HeaderOf(out, N, encoded.sampleRate, encoded.numChannels)
       /\ U16At(out, 22) = encoded.numChannels
       /\ U16At(out, 32) = encoded.numChannels * 2
       /\ BytesAt(out, 44, N) = encoded.samples

\* C23: addWavHeader returns N+44 bytes, the header of the claim with each
\* 16-bit field holding its value modulo 2^16 (so C at 22 when C < 2^16 and
\* C*2 at 32 when C*2 < 2^16), followed by the samples unchanged.  The
\* 32-bit values of the inputs followed here are all below 2^31.
C23_HeaderModuloWidth ==
  encoded.called =>
    LET out == encoded.out
        N == Len(encoded.samples)
        C == encoded.numChannels
    IN /\ HeaderOf(out, N, encoded.sampleRate, C)
       /\ U16At(out, 22) = C % 65536
       /\ U16At(out, 32) = (C * 2) % 65536
       /\ C * 2 < 65536 => U16At(out, 22) = C /\ U16At(out, 32) = C * 2
       /\ BytesAt(out, 44, N) = encoded.samples

\* The call of generateScene (24000 Hz, one channel) on three sample bytes.
C23_Witness ==
  /\ encoded.called
  /\ encoded.samples = <<0, 128, 255>>
  /\ encoded.sampleRate = 24000
  /\ encoded.numChannels = 1
  /\ Len(encoded.out) = 47
  /\ BytesAt(encoded.out, 44, 3) = <<0, 128, 255>>

\* A step of generateScene: a click on Generate Scene or the continuation
\* of one of its awaits.
PipelineStep ==
  \/ lastTrigger' # <<>>
  \/ pc' # pc
  \/ inflight' # inflight
  \/ polls' # polls

\* C24: a step of the pipeline leaves the history (past, present, future)
\* as it is, and every other step (undo, redo, replace, updateField through
\* the handlers of the form) leaves the video and the audio reference as
\* they are.
C24_ArtifactsFrame ==
  /\ [][PipelineStep => hist' = hist /\ nextRef' = nextRef]_vars
  /\ [][~PipelineStep
        => videoUri' = videoUri /\ audioUri' = audioUri]_vars
  /\ [][hist' # hist => videoUri' = videoUri /\ audioUri' = audioUri]_vars

\* The first run has published its audio and its video, and the present,
\* reached by an undo, has neither the prompt nor the image a run needs.
C24_Witness ==
  /\ videoUri = BlobUrl("video", 1)
  /\ audioUri = BlobUrl("audio", 1)
  /\ pc = "idle"
  /\ hist.future # <<>>
  /\ ~Truthy(hist.present.videoPrompt)
  /\ ~Truthy(hist.present.uploadedImage)

\* What the catch of generateScene writes for a failed call or a completed
\* operation without locator.
FailureStatuses ==
  {"Error: No video returned", "Error: Unknown error occurred"}
    \cup {"Error: " \o message : message \in RemoteErrors \ {""}}

\* The continuation of the await the run is suspended at is enabled.
RunCanContinue ==
  ENABLED (\/ SpeechSettles /\ Quiet
           \/ SubmitSettles /\ Quiet
           \/ PollTimer /\ Waited
           \/ PollSettles /\ Answered
           \/ FetchSettles /\ Quiet
           \/ BlobSettles /\ Quiet)

\* C25: in the poll loop the run is in progress with no error shown; a wait
\* is only ever followed by another status query, whatever their number;
\* an answered query leads back to the wait when the operation is not done,
\* to the fetch when it is done with a locator, and to the end of the run
\* only with the status of a failed call or of a missing locator.  A run
\* in progress is never stuck: the continuation of its await can run as
\* soon as the call settles or the timer fires.
C25_NoPollBound ==
  /\ [](pc \in {"sleep", "poll"} =>
          /\ loading
          /\ ~IsError(status)
          /\ pollLog.waits = polls)
  /\ [][pc = "sleep" /\ pc' # "sleep"
        => /\ pc' = "poll"
           /\ inflight'.kind = "getVideosOperation"
           /\ polls' = polls + 1
           /\ loading']_vars
  /\ [][pc = "poll" /\ pc' # "poll"
        => \/ pc' = "sleep" /\ ~operation'.done /\ loading'
           \/ pc' = "fetch" /\ operation'.done /\ loading'
           \/ pc' = "idle" /\ ~loading' /\ status' \in FailureStatuses]_vars
  /\ [](pc # "idle" => RunCanContinue)

\* Every status query the service may leave undone was answered not-done,
\* and the run waits for the next one.
C25_Witness ==
  /\ pc = "sleep"
  /\ loading
  /\ polls = MaxPolls
  /\ pollLog.answers = [i \in 1..MaxPolls |-> "not-done"]

\* C26: the step in which a music read completes, and the step of
\* removeMusic, leave every field of the present but the music and its name
\* as it was just before.
C26_AsStated ==
  [][(\E i \in DOMAIN readers : MusicLoadEnd(i)) \/ RemoveMusic
       => \A f \in Fields \ {"backgroundMusic", "bgMusicName"} :
            hist'.present[f] = hist.present[f]]_vars

\* past ++ [present] ++ future
Timeline(h) == h.past \o <<h.present>> \o h.future

\* C27: on every history the handlers reach, undo followed by redo (past
\* non-empty) and redo followed by undo (future non-empty) give back the
\* same past, present and future, object for object; undo and redo leave
\* past ++ [present] ++ future as it is, also in the steps the handlers take.
C27_UndoRedoInverse ==
  /\ [](hist.past # <<>> => REDO(UNDO(hist)) = hist)
  /\ [](hist.future # <<>> => UNDO(REDO(hist)) = hist)
  /\ [](Timeline(UNDO(hist)) = Timeline(hist))
  /\ [](Timeline(REDO(hist)) = Timeline(hist))
  /\ [][Undo \/ Redo => Timeline(hist') = Timeline(hist)]_vars

\* After two edits and two undos a redo was made: past, present and future
\* each hold one Document and the redo restored what the last undo undid.
C27_Witness ==
  /\ scenario.stage = 3
  /\ ~scenario.noop
  /\ scenario.undone = <<hist.present>>
  /\ Len(hist.past) = 1
  /\ Len(hist.future) = 1

====
